---- MODULE Spec2Model ----
(***************************************************************************)
(* Model of the SPS Smart Plumbing System analysis service.                *)
(*                                                                         *)
(*   server/db.ts        (src/unnamed/part_005)  data access               *)
(*   server/aiService.ts (src/unnamed/part_002)  analysis functions        *)
(*   drizzle/schema.ts   (src/unnamed/part_004)  tables                    *)
(*   server/routers.ts   (src/unnamed/part_001)  simulation procedures     *)
(*                                                                         *)
(* Tables.  A table with an auto-increment primary key that no query reads *)
(* or orders by is the bag of its rows without the id: the ids are         *)
(* 1..BagCardinality(table) and the next insert gets the next number.      *)
(*                                                                         *)
(* Units.  flowRate and pressure are the scaled integers of the schema     *)
(* (value * 100).  Every flow rate of the model is a multiple of 100, and  *)
(* sums of squares are taken in units of 100 so that they stay inside      *)
(* TLC's 32-bit integers.  A timestamp is a number of half hours since the *)
(* epoch (1 = 1 800 000 ms) and the process runs in UTC.  JavaScript       *)
(* doubles are modelled as exact rationals (numerator, denominator); NaN   *)
(* and Infinity are handled where the code can produce them.               *)
(***************************************************************************)
EXTENDS Integers, Sequences, FiniteSets, Bags, TLC

VARIABLES
    dbUp,        \* getDb() returns a connection (DATABASE_URL is set)
    now,         \* Date.now(), in half hours
    sensors,     \* table sensors: rows in insertion (id) order
    readings,    \* table flowReadings: sensorId -> rows in insertion order
    patterns,    \* table flowPatterns: the bag of its rows
    riskScores,  \* table pipeRiskScores: the bag of its rows
    alerts,      \* table alerts: the bag of its rows
    result,      \* what the procedure that just ran returned to its caller
    seeders      \* the seedSensors requests in flight: caller -> position

vars == <<dbUp, now, sensors, readings, patterns, riskScores, alerts, result, seeders>>

----------------------------------------------------------------------------
(* Bounds of the model *)

MaxTicks == 1          \* half hours the clock may advance after start
MaxNewReadings == 2    \* readings ingested after start
MaxPatternRows == 2    \* rows of flowPatterns
MaxRiskRows == 3       \* rows of pipeRiskScores
MaxAlerts == 1         \* rows of alerts

StartTime == 47                       \* the clock at start: Thu 23:30
AllSensorIds == 1..5                  \* sensorId values of flowReadings rows

----------------------------------------------------------------------------
(* Arithmetic helpers *)

RECURSIVE SumSeq(_)
SumSeq(s) == IF s = <<>> THEN 0 ELSE Head(s) + SumSeq(Tail(s))

RECURSIVE MinSeq(_)
MinSeq(s) ==
    IF Len(s) = 1 THEN s[1]
    ELSE LET m == MinSeq(Tail(s)) IN IF s[1] < m THEN s[1] ELSE m

RECURSIVE MaxSeq(_)
MaxSeq(s) ==
    IF Len(s) = 1 THEN s[1]
    ELSE LET m == MaxSeq(Tail(s)) IN IF s[1] > m THEN s[1] ELSE m

Min2(a, b) == IF a < b THEN a ELSE b
Max2(a, b) == IF a > b THEN a ELSE b
Abs(a) == IF a < 0 THEN 0 - a ELSE a

Reverse(s) == [i \in 1..Len(s) |-> s[Len(s) + 1 - i]]
Take(s, n) == IF Len(s) <= n THEN s ELSE SubSeq(s, 1, n)

\* Math.round(num / den) for den > 0: halves round towards +Infinity
RoundDiv(num, den) == (2 * num + den) \div (2 * den)

\* floor(sqrt(d)) for d >= 0
RECURSIVE ISqrtIn(_, _, _)
ISqrtIn(lo, hi, d) ==
    IF lo >= hi THEN lo
    ELSE LET mid == (lo + hi + 1) \div 2
         IN IF mid * mid <= d THEN ISqrtIn(mid, hi, d) ELSE ISqrtIn(lo, mid - 1, d)

ISqrt(d) == ISqrtIn(0, Min2(d, 46340), d)

----------------------------------------------------------------------------
(* Statistics of a list of flow rates, as the analysis functions compute   *)
(* them: avg = sum / n and variance = sum((x - avg)^2) / n.  With S the    *)
(* sum and Q the sum of squares, n^2 * variance = n*Q - S^2 (FlowD, in     *)
(* units of 100^2).                                                        *)

FlowRatesOf(rs) == [i \in 1..Len(rs) |-> rs[i].flowRate]
PressuresOf(rs) == [i \in 1..Len(rs) |-> rs[i].pressure]

FlowS(fr) == SumSeq([i \in 1..Len(fr) |-> fr[i] \div 100])
FlowQ(fr) == SumSeq([i \in 1..Len(fr) |-> (fr[i] \div 100) * (fr[i] \div 100)])
FlowD(fr) == Len(fr) * FlowQ(fr) - FlowS(fr) * FlowS(fr)

\* Math.round(Math.sqrt(variance)) in scaled units: round(100 * sqrt(D) / n).
\* floor(200 * sqrt(D)) = 200a + b with a = floor(sqrt(D)) and b the largest
\* b < 200 with (200a + b)^2 <= 40000 D.
RoundStdDev(fr) ==
    LET n == Len(fr)
        d == FlowD(fr)
        a == ISqrt(d)
        b == CHOOSE x \in 0..199 :
                /\ 400 * a * x + x * x <= 40000 * (d - a * a)
                /\ \/ x = 199
                   \/ 400 * a * (x + 1) + (x + 1) * (x + 1) > 40000 * (d - a * a)
    IN  (200 * a + b + n) \div (2 * n)

----------------------------------------------------------------------------
(* Dates *)

\* new Date(ts).getHours() and .getDay(); the epoch is a Thursday (4)
GetHours(ts) == (ts \div 2) % 24
GetDay(ts) == ((ts \div 48) + 4) % 7

----------------------------------------------------------------------------
(* Data access (db.ts).  Every query answers "nothing" when getDb() gives   *)
(* no connection.                                                          *)

ReadingsOf(sensorId) ==
    IF sensorId \in DOMAIN readings THEN readings[sensorId] ELSE <<>>

GetAllSensors == IF dbUp THEN sensors ELSE <<>>

\* the list `result` of getSensorById; the function returns result[0]
GetSensorById(id) ==
    IF ~dbUp THEN <<>>
    ELSE Take(SelectSeq(sensors, LAMBDA r : r.id = id), 1)

\* createAlert: INSERT INTO alerts (it throws without a connection)
CreateAlert(table, alert) == table (+) SetToBag({alert})

\* updateSensorStatus on the table
UpdateSensorStatus(table, id, status) ==
    IF ~dbUp THEN table
    ELSE [i \in 1..Len(table) |->
            IF table[i].id = id THEN [table[i] EXCEPT !.status = status] ELSE table[i]]

\* ORDER BY timestamp DESC LIMIT limit.  Rows are inserted with
\* non-decreasing timestamps, so the reverse of the insertion order is a
\* descending order.
GetRecentFlowReadings(sensorId, limit) ==
    IF ~dbUp THEN <<>> ELSE Take(Reverse(ReadingsOf(sensorId)), limit)

\* startTime and endTime in minutes; a row's timestamp is 30 minutes * ts
GetFlowReadingsInTimeRange(sensorId, startTime, endTime) ==
    IF ~dbUp THEN <<>>
    ELSE SelectSeq(ReadingsOf(sensorId),
                   LAMBDA r : 30 * r.timestamp >= startTime /\ 30 * r.timestamp <= endTime)

\* SELECT ... LIMIT 1 without ORDER BY: any matching row may come first.
\* The set of the lists `result` the query can give.
GetFlowPattern(sensorId, hourOfDay, dayOfWeek) ==
    LET match == { p \in BagToSet(patterns) :
                     /\ p.sensorId = sensorId
                     /\ p.hourOfDay = hourOfDay
                     /\ p.dayOfWeek = dayOfWeek }
    IN  IF ~dbUp \/ match = {} THEN { <<>> }
        ELSE { <<p>> : p \in match }

\* Variant: the sample count of the pattern is not looked at
NoPattern(pattern) == Len(pattern) = 0

\* !pattern || pattern.sampleCount < 10
NotEnoughData(pattern) == Len(pattern) = 0 \/ pattern[1].sampleCount < 10

\* checkFlowAnomaly, with `pattern` the list getFlowPattern gave and
\* currentFlowRate = num / den
CheckFlowAnomaly(pattern, num, den) ==
    IF NotEnoughData(pattern)
    THEN [isAnomaly |-> FALSE, deviationNum |-> 0, expectedRange |-> <<>>]
    ELSE LET expectedMin == pattern[1].avgFlowRate - 2 * pattern[1].stdDeviation
             expectedMax == pattern[1].avgFlowRate + 2 * pattern[1].stdDeviation
         IN  [isAnomaly |-> (num < expectedMin * den) \/ (num > expectedMax * den),
              deviationNum |-> num - pattern[1].avgFlowRate * den,
              expectedRange |-> << [minTimes100 |-> expectedMin,
                                    maxTimes100 |-> expectedMax] >>]

----------------------------------------------------------------------------
(* Smart monitoring (aiService.ts) *)

GenerateAnalysisMessage(status) ==
    CASE status = "leak" -> "Leak detected at"
      [] status = "blockage" -> "Possible blockage detected at"
      [] status = "warning" -> "Abnormal flow pattern at"
      [] OTHER -> "Normal operation at"

\* Variant: the variance rule runs after the pressure and blockage rules and
\* overwrites their status
AnalyzeRulesVarianceLast(sensorId, rs, anomalyCheck) ==
    LET n == Len(rs)
        fr == FlowRatesOf(rs)
        sumPressure == SumSeq(PressuresOf(rs))
        highVariance == \/ FlowS(fr) < 0
                        \/ 100 * FlowD(fr) > 9 * FlowS(fr) * FlowS(fr)
        lowPressure == sumPressure < 3000 * n
        blockage == 100 * FlowS(fr) < 100 * n /\ sumPressure > 5000 * n
        f1 == IF lowPressure THEN <<"low_pressure">> ELSE <<>>
        s1 == IF lowPressure THEN "leak" ELSE "normal"
        v1 == IF lowPressure THEN "high" ELSE "low"
        c1 == IF lowPressure THEN 85 ELSE 70
        f2 == IF blockage THEN Append(f1, "possible_blockage") ELSE f1
        s2 == IF blockage THEN "blockage" ELSE s1
        v2 == IF blockage THEN "medium" ELSE v1
        c2 == IF blockage THEN 75 ELSE c1
        f3 == IF highVariance THEN Append(f2, "high_flow_variance") ELSE f2
        s3 == IF highVariance THEN "warning" ELSE s2
        v3 == IF highVariance THEN "medium" ELSE v2
        f4 == IF anomalyCheck.isAnomaly THEN Append(f3, "pattern_deviation") ELSE f3
        s4 == IF anomalyCheck.isAnomaly /\ s3 = "normal" THEN "warning" ELSE s3
        v4 == IF anomalyCheck.isAnomaly /\ s3 = "normal" THEN "medium" ELSE v3
        c4 == IF anomalyCheck.isAnomaly THEN Min2(c2 + 10, 95) ELSE c2
    IN  [sensorId |-> sensorId, status |-> s4, confidence |-> c4,
         message |-> GenerateAnalysisMessage(s4), severity |-> v4, factors |-> f4]

\* Variant: a pattern deviation sets warning / medium whatever the status was
AnalyzeRulesDeviationOverrides(sensorId, rs, anomalyCheck) ==
    LET n == Len(rs)
        fr == FlowRatesOf(rs)
        sumPressure == SumSeq(PressuresOf(rs))
        highVariance == \/ FlowS(fr) < 0
                        \/ 100 * FlowD(fr) > 9 * FlowS(fr) * FlowS(fr)
        lowPressure == sumPressure < 3000 * n
        blockage == 100 * FlowS(fr) < 100 * n /\ sumPressure > 5000 * n
        f1 == IF highVariance THEN <<"high_flow_variance">> ELSE <<>>
        s1 == IF highVariance THEN "warning" ELSE "normal"
        v1 == IF highVariance THEN "medium" ELSE "low"
        f2 == IF lowPressure THEN Append(f1, "low_pressure") ELSE f1
        s2 == IF lowPressure THEN "leak" ELSE s1
        v2 == IF lowPressure THEN "high" ELSE v1
        c2 == IF lowPressure THEN 85 ELSE 70
        f3 == IF blockage THEN Append(f2, "possible_blockage") ELSE f2
        s3 == IF blockage THEN "blockage" ELSE s2
        v3 == IF blockage THEN "medium" ELSE v2
        c3 == IF blockage THEN 75 ELSE c2
        f4 == IF anomalyCheck.isAnomaly THEN Append(f3, "pattern_deviation") ELSE f3
        s4 == IF anomalyCheck.isAnomaly THEN "warning" ELSE s3
        v4 == IF anomalyCheck.isAnomaly THEN "medium" ELSE v3
        c4 == IF anomalyCheck.isAnomaly THEN Min2(c3 + 10, 95) ELSE c3
    IN  [sensorId |-> sensorId, status |-> s4, confidence |-> c4,
         message |-> GenerateAnalysisMessage(s4), severity |-> v4, factors |-> f4]

\* The rules of analyzeFlowOverTime on >= 3 readings `rs`
AnalyzeRules(sensorId, rs, anomalyCheck) ==
    LET n == Len(rs)
        fr == FlowRatesOf(rs)
        sumPressure == SumSeq(PressuresOf(rs))
        \* flowStdDev > avgFlow * 0.3
        highVariance == \/ FlowS(fr) < 0
                        \/ 100 * FlowD(fr) > 9 * FlowS(fr) * FlowS(fr)
        lowPressure == sumPressure < 3000 * n
        blockage == 100 * FlowS(fr) < 100 * n /\ sumPressure > 5000 * n
        f1 == IF highVariance THEN <<"high_flow_variance">> ELSE <<>>
        s1 == IF highVariance THEN "warning" ELSE "normal"
        v1 == IF highVariance THEN "medium" ELSE "low"
        f2 == IF lowPressure THEN Append(f1, "low_pressure") ELSE f1
        s2 == IF lowPressure THEN "leak" ELSE s1
        v2 == IF lowPressure THEN "high" ELSE v1
        c2 == IF lowPressure THEN 85 ELSE 70
        f3 == IF blockage THEN Append(f2, "possible_blockage") ELSE f2
        s3 == IF blockage THEN "blockage" ELSE s2
        v3 == IF blockage THEN "medium" ELSE v2
        c3 == IF blockage THEN 75 ELSE c2
        f4 == IF anomalyCheck.isAnomaly THEN Append(f3, "pattern_deviation") ELSE f3
        s4 == IF anomalyCheck.isAnomaly /\ s3 = "normal" THEN "warning" ELSE s3
        v4 == IF anomalyCheck.isAnomaly /\ s3 = "normal" THEN "medium" ELSE v3
        c4 == IF anomalyCheck.isAnomaly THEN Min2(c3 + 10, 95) ELSE c3
    IN  [sensorId |-> sensorId, status |-> s4, confidence |-> c4,
         message |-> GenerateAnalysisMessage(s4), severity |-> v4, factors |-> f4]

\* Variant: two readings are enough
InsufficientDataBelowTwo(rs) == Len(rs) < 2

\* readings.length < 3
InsufficientData(rs) == Len(rs) < 3

\* What analyzeFlowOverTime returns; `pattern` is the list getFlowPattern gave
AnalyzeFlowOverTimeResult(sensorId, windowMinutes, pattern) ==
    LET endTime == 30 * now
        startTime == endTime - windowMinutes
        rs == GetFlowReadingsInTimeRange(sensorId, startTime, endTime)
        sensor == GetSensorById(sensorId)
    IN  IF Len(sensor) = 0
        THEN [sensorId |-> sensorId, status |-> "normal", confidence |-> 0,
              message |-> "Sensor not found", severity |-> "low",
              factors |-> <<"sensor_not_found">>]
        ELSE IF InsufficientData(rs)
        THEN [sensorId |-> sensorId, status |-> "normal", confidence |-> 50,
              message |-> "Insufficient data for analysis", severity |-> "low",
              factors |-> <<"insufficient_data">>]
        ELSE AnalyzeRules(sensorId, rs,
                 CheckFlowAnomaly(pattern, 100 * FlowS(FlowRatesOf(rs)), Len(rs)))

\* Variant: an alert for every leak or blockage classification
AnalyzerAlertsEveryTime(sensorId, res) ==
    IF res.status \in {"leak", "blockage"} /\ Len(GetSensorById(sensorId)) > 0
    THEN CreateAlert(alerts, [sensorId |-> sensorId, type |-> res.status,
                              severity |-> res.severity, timestamp |-> now])
    ELSE alerts

\* Variant: a normal classification puts the sensor back to active
AnalyzerSensorsSelfClear(sensorId, res) ==
    IF res.status = "normal" THEN UpdateSensorStatus(sensors, sensorId, "active")
    ELSE sensors

\* analyzeFlowOverTime calls no createAlert and no updateSensorStatus
AnalyzerAlerts(sensorId, res) == alerts

AnalyzerSensors(sensorId, res) == sensors

AnalyzeFlowOverTime(sensorId, windowMinutes) ==
    \E pattern \in GetFlowPattern(sensorId, GetHours(now), GetDay(now)) :
        LET res == AnalyzeFlowOverTimeResult(sensorId, windowMinutes, pattern)
        IN  /\ result' = [op |-> "analyzeFlowOverTime", sensorId |-> sensorId,
                          windowMinutes |-> windowMinutes, value |-> res]
            /\ alerts' = AnalyzerAlerts(sensorId, res)
            /\ sensors' = AnalyzerSensors(sensorId, res)
            /\ UNCHANGED <<seeders, dbUp, now, readings, patterns, riskScores>>

----------------------------------------------------------------------------
(* Pattern learning *)

\* the number of rows of `rows` that the update `set` turns into the row u
RECURSIVE CopiesOf(_, _, _, _)
CopiesOf(table, rows, set, u) ==
    IF rows = {} THEN 0
    ELSE LET r == CHOOSE x \in rows : TRUE
         IN  (IF set[r] = u THEN table[r] ELSE 0) + CopiesOf(table, rows \ {r}, set, u)

\* INSERT ... ON DUPLICATE KEY UPDATE: the rows that hold a unique key of the
\* new row (the domain of `set`) are updated to set[row], and without such a
\* row the new row is inserted
InsertOnDuplicateKeyUpdate(table, new, set) ==
    IF DOMAIN set = {} THEN table (+) SetToBag({new})
    ELSE [r \in BagToSet(table) \ DOMAIN set |-> table[r]]
         (+) [u \in { set[r] : r \in DOMAIN set } |->
                 CopiesOf(table, DOMAIN set, set, u)]

\* Variant: a unique index on (sensorId, hourOfDay, dayOfWeek)
FlowPatternBucketKey(row, new) ==
    /\ row.sensorId = new.sensorId
    /\ row.hourOfDay = new.hourOfDay
    /\ row.dayOfWeek = new.dayOfWeek

\* flowPatterns has one unique index, the auto-increment primary key id
\* (schema.ts), and upsertFlowPattern gives no id: the new row gets the next
\* id, which no row of the table holds
FlowPatternDuplicateKey(row, new) == FALSE

\* upsertFlowPattern
UpsertFlowPattern(table, pattern) ==
    IF ~dbUp THEN table
    ELSE InsertOnDuplicateKeyUpdate(table, pattern,
             [r \in { x \in BagToSet(table) : FlowPatternDuplicateKey(x, pattern) } |->
                 [r EXCEPT !.avgFlowRate = pattern.avgFlowRate,
                           !.minFlowRate = pattern.minFlowRate,
                           !.maxFlowRate = pattern.maxFlowRate,
                           !.stdDeviation = pattern.stdDeviation,
                           !.sampleCount = @ + 1]])

\* the key `${date.getDay()}-${date.getHours()}` of a reading
PatternKey(r) == <<GetDay(r.timestamp), GetHours(r.timestamp)>>

\* the keys of the Map `patterns`, in insertion order
RECURSIVE PatternKeys(_)
PatternKeys(rs) ==
    IF rs = <<>> THEN <<>>
    ELSE LET rest == PatternKeys(SubSeq(rs, 1, Len(rs) - 1))
             k == PatternKey(rs[Len(rs)])
         IN  IF \E i \in 1..Len(rest) : rest[i] = k THEN rest ELSE Append(rest, k)

\* the row learnFlowPatterns computes for one key
LearnedPattern(sensorId, key, rs) ==
    LET fr == FlowRatesOf(SelectSeq(rs, LAMBDA r : PatternKey(r) = key))
    IN  [sensorId |-> sensorId, hourOfDay |-> key[2], dayOfWeek |-> key[1],
         avgFlowRate |-> RoundDiv(100 * FlowS(fr), Len(fr)),
         minFlowRate |-> MinSeq(fr), maxFlowRate |-> MaxSeq(fr),
         stdDeviation |-> RoundStdDev(fr), sampleCount |-> Len(fr)]

RECURSIVE UpsertAll(_, _, _, _)
UpsertAll(table, sensorId, keys, rs) ==
    IF keys = <<>> THEN table
    ELSE UpsertAll(UpsertFlowPattern(table, LearnedPattern(sensorId, Head(keys), rs)),
                   sensorId, Tail(keys), rs)

\* Variant: 5 readings suffice
InsufficientHistoryBelowFive(rs) == Len(rs) < 5

\* readings.length < 10
InsufficientHistory(rs) == Len(rs) < 10

\* the table flowPatterns after learnFlowPatterns(sensorId)
LearnFlowPatternsTable(sensorId) ==
    LET rs == GetRecentFlowReadings(sensorId, 100)
    IN  IF InsufficientHistory(rs) THEN patterns
        ELSE UpsertAll(patterns, sensorId, PatternKeys(rs), rs)

\* learnFlowPatterns(sensorId) while flowPatterns stays within maxRows rows
LearnFlowPatternsWithin(sensorId, maxRows) ==
    /\ BagCardinality(LearnFlowPatternsTable(sensorId)) <= maxRows
    /\ patterns' = LearnFlowPatternsTable(sensorId)
    /\ result' = [op |-> "learnFlowPatterns", sensorId |-> sensorId]
    /\ UNCHANGED <<seeders, dbUp, now, sensors, readings, riskScores, alerts>>

LearnFlowPatterns(sensorId) == LearnFlowPatternsWithin(sensorId, MaxPatternRows)

\* a direct call of checkFlowAnomaly(sensorId, currentFlowRate)
CheckFlowAnomalyCall(sensorId, currentFlowRate) ==
    \E pattern \in GetFlowPattern(sensorId, GetHours(now), GetDay(now)) :
        /\ result' = [op |-> "checkFlowAnomaly", sensorId |-> sensorId,
                      currentFlowRate |-> currentFlowRate, pattern |-> pattern,
                      value |-> CheckFlowAnomaly(pattern, currentFlowRate, 1)]
        /\ UNCHANGED <<seeders, dbUp, now, sensors, readings, patterns, riskScores, alerts>>

----------------------------------------------------------------------------
(* Risk prediction *)

\* pipeRiskScores has one unique index, the auto-increment primary key id
\* (schema.ts), and upsertPipeRiskScore gives no id
PipeRiskScoreDuplicateKey(row, new) == FALSE

\* upsertPipeRiskScore
UpsertPipeRiskScore(table, score) ==
    IF ~dbUp THEN table
    ELSE InsertOnDuplicateKeyUpdate(table, score,
             [r \in { x \in BagToSet(table) : PipeRiskScoreDuplicateKey(x, score) } |->
                 [r EXCEPT !.riskScore = score.riskScore,
                           !.leakProbability = score.leakProbability,
                           !.blockageProbability = score.blockageProbability,
                           !.factors = score.factors,
                           !.lastAnalyzedAt = score.lastAnalyzedAt]])

\* getPipeRiskScore: ORDER BY lastAnalyzedAt DESC LIMIT 1; the set of the
\* lists `result` the query can give (rows of equal lastAnalyzedAt in any order)
GetPipeRiskScore(sensorId) ==
    LET match == { r \in BagToSet(riskScores) : r.sensorId = sensorId }
        latest == { r \in match : \A q \in match : q.lastAnalyzedAt <= r.lastAnalyzedAt }
    IN  IF ~dbUp \/ match = {} THEN { <<>> } ELSE { <<r>> : r \in latest }

\* getAllFlowPatternsForSensor, as the set of its distinct rows
GetAllFlowPatternsForSensor(sensorId) ==
    IF ~dbUp THEN {}
    ELSE { p \in BagToSet(patterns) : p.sensorId = sensorId }

\* patterns.find(p => p.hourOfDay === now.getHours() && p.dayOfWeek === now.getDay()):
\* the rows come ORDER BY dayOfWeek, hourOfDay, so any row of the current
\* bucket may be the first.  The set of lists (empty: undefined) find can give.
FindCurrentPattern(sensorId) ==
    LET match == { p \in GetAllFlowPatternsForSensor(sensorId) :
                     p.hourOfDay = GetHours(now) /\ p.dayOfWeek = GetDay(now) }
    IN  IF match = {} THEN { <<>> } ELSE { <<p>> : p \in match }

\* recentReadings[0]: ORDER BY timestamp DESC leaves the order of rows of equal
\* timestamp open, so any row of the greatest timestamp may be the first
FirstRecentReadings(recentReadings) ==
    { recentReadings[i] : i \in { j \in 1..Len(recentReadings) :
                                    recentReadings[j].timestamp = recentReadings[1].timestamp } }

Recommendation(riskScore) ==
    IF riskScore > 70 THEN "Immediate inspection recommended. High risk of failure."
    ELSE IF riskScore > 40 THEN "Schedule preventive maintenance within the next week."
    ELSE IF riskScore > 20
    THEN "Monitor closely. Consider inspection during next maintenance cycle."
    ELSE "Continue regular monitoring."

\* Variant: the scores are not capped
NoNormalize(x) == x

\* the final normalisation of calculatePipeRiskScore
NormalizeScore(x) == Min2(x, 100)

\* Variant: the main-pipe factor gets its label but adds nothing to the score
RiskScoreOfLabelOnly(sensor, recentReadings, currentPattern, first) ==
    LET n == Len(recentReadings)
        fr == FlowRatesOf(recentReadings)
        isLeak == sensor.status = "leak"
        isWarning == sensor.status = "warning"
        enough == n >= 10
        \* Math.sqrt(variance) / avg > 0.5; avg = 0 gives Infinity (variance > 0)
        \* or NaN (variance = 0), avg < 0 a value <= 0
        highCv == /\ enough
                  /\ \/ FlowS(fr) > 0 /\ 4 * FlowD(fr) > FlowS(fr) * FlowS(fr)
                     \/ FlowS(fr) = 0 /\ FlowD(fr) > 0
        lowPressure == enough /\ SumSeq(PressuresOf(recentReadings)) < 3500 * n
        deviates == /\ Len(currentPattern) > 0
                    /\ n > 0
                    /\ Abs(first.flowRate - currentPattern[1].avgFlowRate)
                          > currentPattern[1].stdDeviation * 2
        isMain == sensor.pipeType = "main"
        risk == (IF isLeak THEN 50 ELSE IF isWarning THEN 25 ELSE 0)
                + (IF highCv THEN 20 ELSE 0) + (IF lowPressure THEN 15 ELSE 0)
                + (IF deviates THEN 15 ELSE 0)
        leak == (IF isLeak THEN 80 ELSE IF isWarning THEN 30 ELSE 0)
                + (IF highCv THEN 25 ELSE 0) + (IF lowPressure THEN 20 ELSE 0)
        factors == (IF isLeak THEN <<"Active leak detected">>
                    ELSE IF isWarning THEN <<"Warning status active">> ELSE <<>>)
                   \o (IF highCv THEN <<"High flow variability">> ELSE <<>>)
                   \o (IF lowPressure THEN <<"Below-normal pressure">> ELSE <<>>)
                   \o (IF deviates THEN <<"Significant pattern deviation">> ELSE <<>>)
                   \o (IF isMain THEN <<"Main pipe (higher impact)">> ELSE <<>>)
    IN  [sensorId |-> sensor.id,
         riskScore |-> NormalizeScore(risk),
         leakProbability |-> NormalizeScore(leak),
         blockageProbability |-> NormalizeScore(0),
         factors |-> factors,
         recommendation |-> Recommendation(NormalizeScore(risk))]

\* the scores of calculatePipeRiskScore for a sensor that exists;
\* currentPattern and first are the lists find and recentReadings[0] gave
RiskScoreOf(sensor, recentReadings, currentPattern, first) ==
    LET n == Len(recentReadings)
        fr == FlowRatesOf(recentReadings)
        isLeak == sensor.status = "leak"
        isWarning == sensor.status = "warning"
        enough == n >= 10
        \* Math.sqrt(variance) / avg > 0.5; avg = 0 gives Infinity (variance > 0)
        \* or NaN (variance = 0), avg < 0 a value <= 0
        highCv == /\ enough
                  /\ \/ FlowS(fr) > 0 /\ 4 * FlowD(fr) > FlowS(fr) * FlowS(fr)
                     \/ FlowS(fr) = 0 /\ FlowD(fr) > 0
        lowPressure == enough /\ SumSeq(PressuresOf(recentReadings)) < 3500 * n
        deviates == /\ Len(currentPattern) > 0
                    /\ n > 0
                    /\ Abs(first.flowRate - currentPattern[1].avgFlowRate)
                          > currentPattern[1].stdDeviation * 2
        isMain == sensor.pipeType = "main"
        risk == (IF isLeak THEN 50 ELSE IF isWarning THEN 25 ELSE 0)
                + (IF highCv THEN 20 ELSE 0) + (IF lowPressure THEN 15 ELSE 0)
                + (IF deviates THEN 15 ELSE 0) + (IF isMain THEN 5 ELSE 0)
        leak == (IF isLeak THEN 80 ELSE IF isWarning THEN 30 ELSE 0)
                + (IF highCv THEN 25 ELSE 0) + (IF lowPressure THEN 20 ELSE 0)
        factors == (IF isLeak THEN <<"Active leak detected">>
                    ELSE IF isWarning THEN <<"Warning status active">> ELSE <<>>)
                   \o (IF highCv THEN <<"High flow variability">> ELSE <<>>)
                   \o (IF lowPressure THEN <<"Below-normal pressure">> ELSE <<>>)
                   \o (IF deviates THEN <<"Significant pattern deviation">> ELSE <<>>)
                   \o (IF isMain THEN <<"Main pipe (higher impact)">> ELSE <<>>)
    IN  [sensorId |-> sensor.id,
         riskScore |-> NormalizeScore(risk),
         leakProbability |-> NormalizeScore(leak),
         blockageProbability |-> NormalizeScore(0),
         factors |-> factors,
         recommendation |-> Recommendation(NormalizeScore(risk))]

\* the row calculatePipeRiskScore hands to upsertPipeRiskScore
StoredRiskScore(prediction) ==
    [sensorId |-> prediction.sensorId,
     riskScore |-> prediction.riskScore,
     leakProbability |-> prediction.leakProbability * 100,
     blockageProbability |-> prediction.blockageProbability * 100,
     factors |-> [json |-> prediction.factors],
     lastAnalyzedAt |-> now]

\* the results calculatePipeRiskScore can return for a sensor that exists
Predictions(sensorId) ==
    LET sensor == GetSensorById(sensorId)[1]
        recentReadings == GetRecentFlowReadings(sensorId, 50)
        firsts == IF recentReadings = <<>> THEN { [flowRate |-> 0] }
                  ELSE FirstRecentReadings(recentReadings)
    IN  { RiskScoreOf(sensor, recentReadings, cp, first) :
             cp \in FindCurrentPattern(sensorId), first \in firsts }

\* Variant: the row is written before the sensor is looked up, so a call for an
\* unknown sensor leaves a row of zero scores
CalculatePipeRiskScoreWritesFirst(sensorId) ==
    IF Len(GetSensorById(sensorId)) = 0
    THEN /\ BagCardinality(riskScores) < MaxRiskRows
         /\ riskScores' = UpsertPipeRiskScore(riskScores,
                              [sensorId |-> sensorId, riskScore |-> 0,
                               leakProbability |-> 0, blockageProbability |-> 0,
                               factors |-> [json |-> <<>>], lastAnalyzedAt |-> now])
         /\ result' = [op |-> "calculatePipeRiskScore", sensorId |-> sensorId,
                       value |-> <<>>]
         /\ UNCHANGED <<seeders, dbUp, now, sensors, readings, patterns, alerts>>
    ELSE \E prediction \in Predictions(sensorId) :
         /\ BagCardinality(riskScores) < MaxRiskRows
         /\ riskScores' = UpsertPipeRiskScore(riskScores, StoredRiskScore(prediction))
         /\ result' = [op |-> "calculatePipeRiskScore", sensorId |-> sensorId,
                       value |-> <<prediction>>]
         /\ UNCHANGED <<seeders, dbUp, now, sensors, readings, patterns, alerts>>

CalculatePipeRiskScore(sensorId) ==
    IF Len(GetSensorById(sensorId)) = 0
    THEN /\ result' = [op |-> "calculatePipeRiskScore", sensorId |-> sensorId,
                       value |-> <<>>]
         /\ UNCHANGED <<seeders, dbUp, now, sensors, readings, patterns, riskScores, alerts>>
    ELSE \E prediction \in Predictions(sensorId) :
         /\ BagCardinality(riskScores) < MaxRiskRows
         /\ riskScores' = UpsertPipeRiskScore(riskScores, StoredRiskScore(prediction))
         /\ result' = [op |-> "calculatePipeRiskScore", sensorId |-> sensorId,
                       value |-> <<prediction>>]
         /\ UNCHANGED <<seeders, dbUp, now, sensors, readings, patterns, alerts>>

----------------------------------------------------------------------------
(* Flow comparison *)

\* Variant: the rows are taken over every reading, whatever its age
GetAggregatedFlowDataAllTime ==
    LET row(sid) == [sensorId |-> sid,
                     sum |-> SumSeq(FlowRatesOf(ReadingsOf(sid))),
                     readingCount |-> Len(ReadingsOf(sid))]
    IN  IF ~dbUp THEN <<>>
        ELSE SelectSeq([sid \in AllSensorIds |-> row(sid)],
                       LAMBDA d : d.readingCount > 0)

\* getAggregatedFlowData(300000): one row per sensorId with a reading of the
\* last 5 minutes, in sensorId order, with the sum and the count from which
\* AVG is taken
GetAggregatedFlowData ==
    LET recent(sid) == SelectSeq(ReadingsOf(sid),
                                 LAMBDA r : 30 * r.timestamp >= 30 * now - 5)
        row(sid) == [sensorId |-> sid,
                     sum |-> SumSeq(FlowRatesOf(recent(sid))),
                     readingCount |-> Len(recent(sid))]
    IN  IF ~dbUp THEN <<>>
        ELSE SelectSeq([sid \in AllSensorIds |-> row(sid)],
                       LAMBDA d : d.readingCount > 0)

RECURSIVE ProductSeq(_)
ProductSeq(s) == IF s = <<>> THEN 1 ELSE Head(s) * ProductSeq(Tail(s))

\* Variant: one low-flow sensor suffices
IsSystemWideAny(lowCount, k) == lowCount > 0

\* Variant: half of the sensors suffice
IsSystemWideMajority(lowCount, k) == 10 * lowCount >= 5 * k

\* lowFlowSensors.length > sensorData.length * 0.7
IsSystemWide(lowCount, k) == 10 * lowCount > 7 * k

\* compareFlowAcrossPipes over calculateFlowVariance.  With L the product of
\* the counts, k the number of rows and a[i] = L * avgFlowRate of row i,
\* avgFlow = sum(a) / (k * L) and
\* k^2 * L^2 * (avgFlowRate[i] - avgFlow)^2 = (k * a[i] - sum(a))^2.
\* The numbers of the code are doubles.  When every avgFlowRate and avgFlow
\* are integers, all intermediate values are computed exactly.  Otherwise
\* avgFlow is rounded, and when deviation and stdDev * 2 are equal in exact
\* arithmetic the rounding decides the comparison: for the rates 100, 100,
\* 100, 100, 103 avgFlow is 100.6, deviation is 2.4000000000000057 and
\* stdDev * 2 is 2.4.  tieIsGreater says which way such a comparison goes.
CompareFlowAcrossPipesResult(tieIsGreater) ==
    LET sensorData == GetAggregatedFlowData
        k == Len(sensorData)
        L == ProductSeq([i \in 1..k |-> sensorData[i].readingCount])
        a == [i \in 1..k |-> sensorData[i].sum * (L \div sensorData[i].readingCount)]
        total == SumSeq(a)
        dev == [i \in 1..k |-> k * a[i] - total]
        sumSq == SumSeq([i \in 1..k |-> dev[i] * dev[i]])
        exact == /\ \A i \in 1..k : sensorData[i].sum % sensorData[i].readingCount = 0
                 /\ total % (k * L) = 0
        \* avgFlowRate < avgFlow * 0.5
        lowFlowSensors == SelectSeq([i \in 1..k |-> i], LAMBDA i : 2 * k * a[i] < total)
        isSystemWide == IsSystemWide(Len(lowFlowSensors), k)
        \* |avgFlowRate - avgFlow| > stdDev * 2
        outliers == SelectSeq([i \in 1..k |-> i],
                              LAMBDA i : \/ k * dev[i] * dev[i] > 4 * sumSq
                                         \/ /\ tieIsGreater
                                            /\ ~exact
                                            /\ sumSq > 0
                                            /\ k * dev[i] * dev[i] = 4 * sumSq)
    IN  IF k < 2
        THEN [isSystemWideIssue |-> FALSE, affectedSensors |-> <<>>,
              diagnosis |-> "Insufficient data for comparison"]
        ELSE IF isSystemWide
        THEN [isSystemWideIssue |-> TRUE,
              affectedSensors |-> [i \in 1..k |-> sensorData[i].sensorId],
              diagnosis |-> "System-wide low flow detected"]
        ELSE IF Len(outliers) > 0
        THEN [isSystemWideIssue |-> FALSE,
              affectedSensors |-> [j \in 1..Len(outliers) |->
                                      sensorData[outliers[j]].sensorId],
              diagnosis |-> "Localized flow anomaly detected"]
        ELSE [isSystemWideIssue |-> FALSE, affectedSensors |-> <<>>,
              diagnosis |-> "All sensors operating within normal parameters."]

CompareFlowAcrossPipes ==
    /\ \E tieIsGreater \in BOOLEAN :
          result' = [op |-> "compareFlowAcrossPipes",
                     value |-> CompareFlowAcrossPipesResult(tieIsGreater)]
    /\ UNCHANGED <<seeders, dbUp, now, sensors, readings, patterns, riskScores, alerts>>

----------------------------------------------------------------------------
(* Leak classification *)

UrgencyMap(severity) ==
    CASE severity = "critical" ->
            "Immediate action required. Shut off water supply if possible."
      [] severity = "high" -> "Urgent repair needed within 24 hours."
      [] severity = "medium" -> "Schedule repair within 1 week."
      [] OTHER -> "Monitor and plan for repair during next maintenance window."

\* Variant: the pinhole band is tried before the joint band
LeakTypePinholeFirst(n, S, D, sumPressure) ==
    IF S > 50 * n /\ sumPressure < 2000 * n THEN "burst"
    ELSE IF S > 20 * n /\ S < 40 * n /\ D < 50 * n * n THEN "pinhole"
    ELSE IF S > 30 * n /\ sumPressure < 4000 * n /\ D < 100 * n * n THEN "joint"
    ELSE IF S > 15 * n /\ S < 25 * n THEN "seepage"
    ELSE "unknown"

\* the if / else-if chain of classifyLeak over n readings; with S the sum of
\* the flow rates in units of 100 and D = FlowD, avgFlow = 100 * S / n and
\* flowVariance = 10000 * D / n^2
LeakType(n, S, D, sumPressure) ==
    IF S > 50 * n /\ sumPressure < 2000 * n THEN "burst"
    ELSE IF S > 30 * n /\ sumPressure < 4000 * n /\ D < 100 * n * n THEN "joint"
    ELSE IF S > 20 * n /\ S < 40 * n /\ D < 50 * n * n THEN "pinhole"
    ELSE IF S > 15 * n /\ S < 25 * n THEN "seepage"
    ELSE "unknown"

\* Variant: classification starts with the first reading
TooFewReadingsNone(n) == n < 1

\* readings.length < 5
TooFewReadings(n) == n < 5

\* Variant: the seepage loss is taken against a baseline of 2500
EstimatedFlowLossHighBase(type, n, S) ==
    LET base == CASE type = "burst" -> 0
                  [] type = "joint" -> 20
                  [] type = "pinhole" -> 15
                  [] type = "seepage" -> 25
                  [] OTHER -> 0
    IN  IF type = "unknown" THEN 0 ELSE RoundDiv(60 * (S - base * n), n)

\* estimatedFlowLoss before Math.max; with S the sum of the flow rates in
\* units of 100, (avgFlow - base) / 100 * 60 = 60 * (S - n * base / 100) / n
EstimatedFlowLoss(type, n, S) ==
    LET base == CASE type = "burst" -> 0
                  [] type = "joint" -> 20
                  [] type = "pinhole" -> 15
                  [] type = "seepage" -> 12
                  [] OTHER -> 0
    IN  IF type = "unknown" THEN 0 ELSE RoundDiv(60 * (S - base * n), n)

\* classifyLeak
ClassifyLeakResult(sensorId) ==
    LET sensor == GetSensorById(sensorId)
        rs == GetRecentFlowReadings(sensorId, 20)
        n == Len(rs)
        S == FlowS(FlowRatesOf(rs))
        D == FlowD(FlowRatesOf(rs))
        sumPressure == SumSeq(PressuresOf(rs))
        type == LeakType(n, S, D, sumPressure)
        severity == CASE type = "burst" -> "critical"
                      [] type = "joint" -> "high"
                      [] type = "seepage" -> "low"
                      [] OTHER -> "medium"
        estimatedFlowLoss == EstimatedFlowLoss(type, n, S)
    IN  IF Len(sensor) = 0 \/ TooFewReadings(n)
        THEN [type |-> "unknown", severity |-> "medium", estimatedFlowLoss |-> 0,
              urgency |-> "Unable to classify - insufficient data"]
        ELSE [type |-> type, severity |-> severity,
              estimatedFlowLoss |-> Max2(0, estimatedFlowLoss),
              urgency |-> UrgencyMap(severity)]

ClassifyLeak(sensorId) ==
    /\ result' = [op |-> "classifyLeak", sensorId |-> sensorId,
                  value |-> ClassifyLeakResult(sensorId)]
    /\ UNCHANGED <<seeders, dbUp, now, sensors, readings, patterns, riskScores, alerts>>

----------------------------------------------------------------------------
(* System health *)

\* getAlertsToday: the number of alerts since 00:00 of today
GetAlertsTodayCount ==
    LET startOfDay == now - (now % 48)
        today == [r \in { x \in BagToSet(alerts) : x.timestamp >= startOfDay } |->
                     alerts[r]]
    IN  IF ~dbUp THEN 0 ELSE BagCardinality(today)

RECURSIVE StoreAll(_, _)
StoreAll(table, predictions) ==
    IF predictions = <<>> THEN table
    ELSE StoreAll(UpsertPipeRiskScore(table, StoredRiskScore(Head(predictions))),
                  Tail(predictions))

\* Variant: the predictions stay in the order of the sensors
Unsorted(s) == s

\* predictions.sort((a, b) => b.riskScore - a.riskScore), a stable sort
RECURSIVE SortByRiskScore(_)
SortByRiskScore(s) ==
    IF s = <<>> THEN <<>>
    ELSE LET sorted == SortByRiskScore(SubSeq(s, 1, Len(s) - 1))
             p == s[Len(s)]
             k == Cardinality({ i \in 1..Len(sorted) :
                                  sorted[i].riskScore >= p.riskScore })
         IN  SubSeq(sorted, 1, k) \o <<p>> \o SubSeq(sorted, k + 1, Len(sorted))

\* the report for the predictions the calls of calculatePipeRiskScore returned
SystemHealthReport(allSensors, predictions) ==
    LET activeSensors == Len(SelectSeq(allSensors, LAMBDA x : x.status # "offline"))
        warningSensors == Len(SelectSeq(allSensors, LAMBDA x : x.status = "warning"))
        leakSensors == Len(SelectSeq(allSensors, LAMBDA x : x.status = "leak"))
        highRiskPipes == Len(SelectSeq(predictions, LAMBDA x : x.riskScore > 50))
        healthScore == 100 - leakSensors * 20 - warningSensors * 10
                           - (Len(allSensors) - activeSensors) * 5
                           - GetAlertsTodayCount * 2 - highRiskPipes * 5
    IN  [overallHealth |-> Max2(0, Min2(100, healthScore)),
         totalSensors |-> Len(allSensors),
         activeSensors |-> activeSensors,
         warningCount |-> warningSensors,
         leakCount |-> leakSensors,
         predictions |-> SortByRiskScore(predictions)]

\* the lists of results the calls calculatePipeRiskScore(sensor.id), one per
\* sensor of the list, can return
RECURSIVE PredictionLists(_)
PredictionLists(list) ==
    IF list = <<>> THEN { <<>> }
    ELSE { <<p>> \o rest : p \in Predictions(Head(list).id),
                           rest \in PredictionLists(Tail(list)) }

\* generateSystemHealthReport: one calculatePipeRiskScore per sensor, each of
\* them storing its row
GenerateSystemHealthReport ==
    LET allSensors == GetAllSensors
    IN  /\ BagCardinality(riskScores) + Len(allSensors) <= MaxRiskRows
        /\ \E predictions \in PredictionLists(allSensors) :
              /\ riskScores' = StoreAll(riskScores, predictions)
              /\ result' = [op |-> "generateSystemHealthReport",
                            value |-> SystemHealthReport(allSensors, predictions)]
              /\ UNCHANGED <<seeders, dbUp, now, sensors, readings, patterns, alerts>>

----------------------------------------------------------------------------
(* Simulation procedures (routers.ts) *)

RECURSIVE ResetAll(_, _)
ResetAll(table, list) ==
    IF list = <<>> THEN table
    ELSE ResetAll(UpdateSensorStatus(table, Head(list).id, "active"), Tail(list))

ResetSystem ==
    /\ sensors' = ResetAll(sensors, GetAllSensors)
    /\ result' = [op |-> "resetSystem", resetCount |-> Len(GetAllSensors)]
    /\ UNCHANGED <<seeders, dbUp, now, readings, patterns, riskScores, alerts>>

\* the rows seedSensors creates
DefaultSensors(st) ==
    << [id |-> 1, pipeType |-> "main", status |-> st[1]],
       [id |-> 2, pipeType |-> "secondary", status |-> st[2]],
       [id |-> 3, pipeType |-> "branch", status |-> st[3]] >>

\* createSensor throws without a connection: the procedure fails
SeedSensors ==
    IF Len(GetAllSensors) > 0
    THEN /\ result' = [op |-> "seedSensors", message |-> "Sensors already exist",
                       count |-> Len(GetAllSensors)]
         /\ UNCHANGED <<seeders, dbUp, now, sensors, readings, patterns, riskScores, alerts>>
    ELSE IF ~dbUp
    THEN /\ result' = [op |-> "seedSensors", message |-> "Database not available",
                       count |-> 0]
         /\ UNCHANGED <<seeders, dbUp, now, sensors, readings, patterns, riskScores, alerts>>
    ELSE /\ sensors' = sensors \o
                [i \in 1..3 |-> [DefaultSensors(<<"active", "active", "active">>)[i]
                                   EXCEPT !.id = Len(sensors) + i]]
         /\ result' = [op |-> "seedSensors", message |-> "Sensors created", count |-> 3]
         /\ UNCHANGED <<seeders, dbUp, now, readings, patterns, riskScores, alerts>>

\* the two callbacks of the client that call the procedure seedSensors
SeedCallers == {"checkAndSeedSensors", "seedSensors"}

\* no request is in flight
NoSeeders == [c \in SeedCallers |-> [pc |-> "idle", created |-> 0]]

\* the client sends the request; checkAndSeedSensors does so when its query
\* of the sensors came back empty
SeedSensorsCall(c) ==
    /\ seeders[c].pc = "idle"
    /\ c = "checkAndSeedSensors" => Len(GetAllSensors) = 0
    /\ seeders' = [seeders EXCEPT ![c] = [pc |-> "checking", created |-> 0]]
    /\ UNCHANGED <<dbUp, now, sensors, readings, patterns, riskScores, alerts, result>>

\* the procedure seedSensors up to its first await: existing = getAllSensors()
SeedSensorsCheck(c) ==
    /\ seeders[c].pc = "checking"
    /\ IF Len(GetAllSensors) > 0
       THEN /\ result' = [op |-> "seedSensors", message |-> "Sensors already exist",
                          count |-> Len(GetAllSensors)]
            /\ seeders' = [seeders EXCEPT ![c] = [pc |-> "idle", created |-> 0]]
       ELSE /\ seeders' = [seeders EXCEPT ![c] = [pc |-> "creating", created |-> 0]]
            /\ UNCHANGED result
    /\ UNCHANGED <<dbUp, now, sensors, readings, patterns, riskScores, alerts>>

\* one turn of the loop over defaultSensors: await db.createSensor(sensor);
\* createSensor throws without a connection
SeedSensorsCreate(c) ==
    /\ seeders[c].pc = "creating"
    /\ IF ~dbUp
       THEN /\ result' = [op |-> "seedSensors", message |-> "Database not available",
                          count |-> 0]
            /\ seeders' = [seeders EXCEPT ![c] = [pc |-> "idle", created |-> 0]]
            /\ UNCHANGED sensors
       ELSE /\ sensors' = Append(sensors,
                   [DefaultSensors(<<"active", "active", "active">>)[seeders[c].created + 1]
                      EXCEPT !.id = Len(sensors) + 1])
            /\ IF seeders[c].created + 1 = Len(DefaultSensors(<<"active", "active", "active">>))
               THEN /\ result' = [op |-> "seedSensors", message |-> "Sensors created",
                                  count |-> seeders[c].created + 1]
                    /\ seeders' = [seeders EXCEPT ![c] = [pc |-> "idle", created |-> 0]]
               ELSE /\ seeders' = [seeders EXCEPT ![c].created = @ + 1]
                    /\ UNCHANGED result
    /\ UNCHANGED <<dbUp, now, readings, patterns, riskScores, alerts>>

\* simulateLeak(sensorId): the sensor is put in status leak and a leak alert
\* of severity high is created for it
SimulateLeak(sensorId) ==
    /\ dbUp
    /\ Len(GetSensorById(sensorId)) > 0
    /\ BagCardinality(alerts) < MaxAlerts
    /\ sensors' = UpdateSensorStatus(sensors, sensorId, "leak")
    /\ alerts' = CreateAlert(alerts, [sensorId |-> sensorId, type |-> "leak",
                                      severity |-> "high", timestamp |-> now])
    /\ result' = [op |-> "simulateLeak", sensorId |-> sensorId,
                  alertId |-> BagCardinality(alerts) + 1]
    /\ UNCHANGED <<seeders, dbUp, now, readings, patterns, riskScores>>

----------------------------------------------------------------------------
(* The environment: readings arrive and time passes *)

NewReadingCount ==
    LET cnt(sid) == Len(SelectSeq(readings[sid], LAMBDA r : r.timestamp >= StartTime))
    IN  SumSeq([sid \in AllSensorIds |-> cnt(sid)])

\* addFlowReading: INSERT INTO flowReadings; throws without a connection
AddFlowReading(sensorId, flowRate, pressure) ==
    /\ dbUp
    /\ NewReadingCount < MaxNewReadings
    /\ readings' = [readings EXCEPT ![sensorId] =
                       Append(@, [flowRate |-> flowRate, pressure |-> pressure,
                                  timestamp |-> now])]
    /\ result' = [op |-> "addFlowReading", sensorId |-> sensorId]
    /\ UNCHANGED <<seeders, dbUp, now, sensors, patterns, riskScores, alerts>>

Tick ==
    /\ now + 1 <= StartTime + MaxTicks
    /\ now' = now + 1
    /\ result' = [op |-> "none"]
    /\ UNCHANGED <<seeders, dbUp, sensors, readings, patterns, riskScores, alerts>>

----------------------------------------------------------------------------

\* readings present at start: n1 readings (f1, p1), then n2 readings (f2, p2),
\* all half an hour old
History(h) ==
    [i \in 1..(h.n1 + h.n2) |->
        [flowRate |-> IF i <= h.n1 THEN h.f1 ELSE h.f2,
         pressure |-> IF i <= h.n1 THEN h.p1 ELSE h.p2,
         timestamp |-> StartTime - 1]]

NoHistory == [n1 |-> 0, f1 |-> 0, p1 |-> 0, n2 |-> 0, f2 |-> 0, p2 |-> 0]
Run(n, f, p) == [NoHistory EXCEPT !.n1 = n, !.f1 = f, !.p1 = p]
Runs(n1, f1, p1, n2, f2, p2) ==
    [n1 |-> n1, f1 |-> f1, p1 |-> p1, n2 |-> n2, f2 |-> f2, p2 |-> p2]

\* The state at start: the tables sensors and flowReadings (of sensor 1) hold
\* what earlier runs left, the other tables are empty
InitWith(sensorTables, histories) ==
    /\ dbUp \in BOOLEAN
    /\ now = StartTime
    /\ sensors \in sensorTables
    /\ \E h \in histories :
          readings = [sid \in AllSensorIds |-> IF sid = 1 THEN History(h) ELSE <<>>]
    /\ patterns = EmptyBag
    /\ riskScores = EmptyBag
    /\ alerts = EmptyBag
    /\ result = [op |-> "none"]
    /\ seeders = NoSeeders

----------------------------------------------------------------------------
(* The service: sensors, alerts and every procedure *)

Init ==
    InitWith({ <<>>, DefaultSensors(<<"warning", "active", "offline">>) },
             { Run(2, 0, 6000), Run(10, 2000, 1800) })

Next ==
    \/ \E sid \in {1, 2} : AnalyzeFlowOverTime(sid, 60)
    \/ LearnFlowPatterns(1)
    \/ CheckFlowAnomalyCall(1, 0)
    \/ CalculatePipeRiskScore(1)
    \/ CompareFlowAcrossPipes
    \/ ClassifyLeak(1)
    \/ GenerateSystemHealthReport
    \/ \E sid \in {1, 2} : SimulateLeak(sid)
    \/ ResetSystem
    \/ SeedSensors

Spec == Init /\ [][Next]_vars

----------------------------------------------------------------------------
(* Smart monitoring and pattern learning over a stream of readings *)

InitMonitor ==
    InitWith({ <<>>, DefaultSensors(<<"active", "active", "active">>) },
             { Run(2, 0, 6000), Run(2, 2000, 4500), Run(10, 2000, 1800) })

NextMonitor ==
    \/ \E p \in { <<2000, 4500>>, <<0, 6000>>, <<6000, 1800>> } :
          AddFlowReading(1, p[1], p[2])
    \/ Tick
    \/ \E wm \in {5, 60} : AnalyzeFlowOverTime(1, wm)
    \/ LearnFlowPatterns(1)
    \/ CheckFlowAnomalyCall(1, 0)

SpecMonitor == InitMonitor /\ [][NextMonitor]_vars

----------------------------------------------------------------------------
(* Risk prediction over sensors of every status *)

InitRisk ==
    InitWith({ <<>> } \cup { DefaultSensors(<<st, "active", "leak">>) :
                                st \in {"active", "warning", "leak", "offline"} },
             { NoHistory, Runs(9, 0, 1800, 1, 6000, 1800),
               Runs(5, -2000, 4500, 5, 2000, 4500) })

NextRisk ==
    \/ LearnFlowPatterns(1)
    \/ \E sid \in {1, 3, 4} : CalculatePipeRiskScore(sid)
    \/ GenerateSystemHealthReport
    \/ ResetSystem

SpecRisk == InitRisk /\ [][NextRisk]_vars

----------------------------------------------------------------------------
(* Leak classification over histories of every band *)

InitClassify ==
    InitWith({ <<>>, DefaultSensors(<<"leak", "active", "active">>) },
             { Run(4, 6000, 1500), Run(5, 6000, 1500),
               Runs(3, 12000, 1500, 2, 0, 1500), Run(5, 3500, 3000),
               Run(5, 2200, 4500), Runs(3, 1200, 4500, 3, 3200, 4500),
               Run(5, 1000, 4500) })

NextClassify ==
    \/ \E p \in { <<6000, 1500>>, <<2000, 4500>> } : AddFlowReading(1, p[1], p[2])
    \/ \E sid \in {1, 2} : ClassifyLeak(sid)

SpecClassify == InitClassify /\ [][NextClassify]_vars

----------------------------------------------------------------------------
(* Flow comparison over readings of the last minutes *)

\* one reading per flow rate and sensor, all taken now
Snapshot(flows) ==
    [sid \in AllSensorIds |->
        [i \in 1..Len(flows[sid]) |->
            [flowRate |-> flows[sid][i], pressure |-> 4500, timestamp |-> StartTime]]]

InitCompare ==
    /\ dbUp \in BOOLEAN
    /\ now = StartTime
    /\ sensors = DefaultSensors(<<"active", "active", "active">>)
    /\ readings \in { Snapshot(f) : f \in
          { << <<>>, <<>>, <<>>, <<>>, <<>> >>,
            << <<20>>, <<>>, <<>>, <<>>, <<>> >>,
            << <<0>>, <<100>>, <<>>, <<>>, <<>> >>,
            << <<100>>, <<105>>, <<98>>, <<>>, <<>> >>,
            << <<0>>, <<0>>, <<0>>, <<100>>, <<>> >>,
            << <<0, 2>>, <<1>>, <<0>>, <<100, 200>>, <<>> >>,
            << <<0>>, <<0>>, <<100>>, <<100>>, <<>> >>,
            << <<20>>, <<20>>, <<20>>, <<20>>, <<>> >>,
            << <<100>>, <<100>>, <<100>>, <<100>>, <<103>> >>,
            << <<20>>, <<20>>, <<20>>, <<20>>, <<60>> >>,
            << <<0>>, <<0>>, <<100>>, <<>>, <<>> >>,
            << <<-300>>, <<-200>>, <<>>, <<>>, <<>> >> } }
    /\ patterns = EmptyBag
    /\ riskScores = EmptyBag
    /\ alerts = EmptyBag
    /\ result = [op |-> "none"]
    /\ seeders = NoSeeders

NextCompare ==
    \/ \E sid \in {1, 4}, f \in {0, 100} : AddFlowReading(sid, f, 4500)
    \/ Tick
    \/ CompareFlowAcrossPipes

SpecCompare == InitCompare /\ [][NextCompare]_vars

----------------------------------------------------------------------------
(* Pattern learning over a history of two hours *)

\* n1 readings of flow rate f taken at t1, then n2 taken at t2
HistoryAt(n1, t1, n2, t2, f) ==
    [i \in 1..(n1 + n2) |->
        [flowRate |-> f, pressure |-> 4500,
         timestamp |-> IF i <= n1 THEN t1 ELSE t2]]

\* sensor 1 has readings of the hour before the current one and of the
\* current hour; each call of learnFlowPatterns adds a row per hour
InitLearn ==
    /\ dbUp \in BOOLEAN
    /\ now = StartTime
    /\ sensors = DefaultSensors(<<"active", "active", "active">>)
    /\ \E h \in { HistoryAt(5, StartTime - 3, 4, StartTime - 1, 2000),
                  HistoryAt(7, StartTime - 3, 3, StartTime - 1, 2000),
                  HistoryAt(8, StartTime - 3, 9, StartTime - 1, 2000) } :
          readings = [sid \in AllSensorIds |-> IF sid = 1 THEN h ELSE <<>>]
    /\ patterns = EmptyBag
    /\ riskScores = EmptyBag
    /\ alerts = EmptyBag
    /\ result = [op |-> "none"]
    /\ seeders = NoSeeders

NextLearn ==
    \/ LearnFlowPatternsWithin(1, 2 * MaxPatternRows)
    \/ \E f \in {2000, 6000} : AddFlowReading(1, f, 4500)
    \/ CheckFlowAnomalyCall(1, 0)

SpecLearn == InitLearn /\ [][NextLearn]_vars

\* the same histories under the two readers of the learned baseline
NextBaseline ==
    \/ LearnFlowPatterns(1)
    \/ AddFlowReading(1, 6000, 4500)
    \/ CheckFlowAnomalyCall(1, 6000)
    \/ CalculatePipeRiskScore(1)

SpecBaseline == InitLearn /\ [][NextBaseline]_vars

----------------------------------------------------------------------------
(* The decision rules of the analyzer, alone and together *)

InitRules ==
    InitWith({ DefaultSensors(<<"active", "active", "active">>) },
             { Run(2, 0, 6000), Run(10, 0, 6000),
               Run(10, 2000, 1800), Run(10, 2000, 4500) })

NextRules ==
    \/ \E p \in { <<100, 6000>>, <<6000, 1800>>, <<2500, 4500>> } :
          AddFlowReading(1, p[1], p[2])
    \/ LearnFlowPatterns(1)
    \/ AnalyzeFlowOverTime(1, 60)

SpecRules == InitRules /\ [][NextRules]_vars

----------------------------------------------------------------------------
(* Seeding by two callers *)

InitSeed ==
    InitWith({ <<>>, DefaultSensors(<<"active", "active", "active">>) }, { NoHistory })

NextSeed ==
    \E c \in SeedCallers :
        \/ SeedSensorsCall(c)
        \/ SeedSensorsCheck(c)
        \/ SeedSensorsCreate(c)

SpecSeed == InitSeed /\ [][NextSeed]_vars

----------------------------------------------------------------------------
(* Properties *)

\* the stored status of sensor `id` in `table`
StatusOf(table, id) ==
    LET rows == SelectSeq(table, LAMBDA r : r.id = id)
    IN  IF rows = <<>> THEN "none" ELSE rows[1].status

\* the number of rows of the bag `table` that are in the set `rows`
CountRows(table, rows) ==
    LET in == BagToSet(table) \cap rows
    IN  IF in = {} THEN 0 ELSE BagCardinality([r \in in |-> table[r]])

\* the alerts of `table` for a sensor with a type among `types`
AlertsOf(table, sensorId, types) ==
    { r \in BagToSet(table) : r.sensorId = sensorId /\ r.type \in types }

AlertTypes == {"leak", "blockage", "pressure_drop", "anomaly", "prediction"}

\* the sensor is in the table and the table can be read
SensorKnown(id) == dbUp /\ \E i \in 1..Len(sensors) : sensors[i].id = id

\* the readings of the sensor in the window that ends now
WindowReadings(sensorId, windowMinutes) ==
    SelectSeq(readings[sensorId],
              LAMBDA r : /\ 30 * r.timestamp >= 30 * now - windowMinutes
                         /\ r.timestamp <= now)

\* the rows of flowPatterns for the sensor and the current hour and weekday
BucketRows(sensorId) ==
    { p \in BagToSet(patterns) : /\ p.sensorId = sensorId
                                 /\ p.hourOfDay = GetHours(now)
                                 /\ p.dayOfWeek = GetDay(now) }

AnalysisOps ==
    {"analyzeFlowOverTime", "compareFlowAcrossPipes", "learnFlowPatterns",
     "calculatePipeRiskScore", "classifyLeak", "generateSystemHealthReport",
     "checkFlowAnomaly"}

\* C1 (as stated): a step of analyzeFlowOverTime that classifies an existing
\* sensor as leak or blockage while its stored status is different creates one
\* alert of that type for the sensor and stores the classification as the
\* sensor's status.
C1_TransitionRaisesAlert ==
    [][ (/\ result'.op = "analyzeFlowOverTime"
         /\ result'.value.status \in {"leak", "blockage"}
         /\ SensorKnown(result'.sensorId)
         /\ StatusOf(sensors, result'.sensorId) # result'.value.status)
        => /\ CountRows(alerts', AlertsOf(alerts', result'.sensorId,
                                          {result'.value.status}))
              = 1 + CountRows(alerts, AlertsOf(alerts, result'.sensorId,
                                               {result'.value.status}))
           /\ StatusOf(sensors', result'.sensorId) = result'.value.status ]_vars

\* C2: a step of analyzeFlowOverTime adds an alert only when it classifies the
\* sensor as leak or blockage and the stored status was different, and then it
\* adds exactly one: a repeated call in the same status adds none.
C2_NoDuplicateAlert ==
    [][ (result'.op = "analyzeFlowOverTime" /\ alerts' # alerts)
        => /\ result'.value.status \in {"leak", "blockage"}
           /\ StatusOf(sensors, result'.sensorId) # result'.value.status
           /\ BagCardinality(alerts') = BagCardinality(alerts) + 1 ]_vars

\* analyzeFlowOverTime has classified as leak a sensor whose stored status is
\* leak already, and the one alert of the sensor is the one that came with
\* that status
C2_RepeatedLeakAnalysis ==
    /\ result.op = "analyzeFlowOverTime"
    /\ result.value.status = "leak"
    /\ StatusOf(sensors, result.sensorId) = "leak"
    /\ CountRows(alerts, AlertsOf(alerts, result.sensorId, AlertTypes)) = 1

\* C3: a stored status becomes active only in a step of resetSystem, and no
\* analysis operation changes a stored status to active or offline.
C3_NoSelfClearing ==
    [][ \A i \in 1..Len(sensors) :
          (i <= Len(sensors') /\ sensors'[i].status # sensors[i].status)
          => /\ (sensors'[i].status = "active" => result'.op = "resetSystem")
             /\ (result'.op \in AnalysisOps
                   => sensors'[i].status \notin {"active", "offline"}) ]_vars

\* resetSystem has put back to active a sensor that was leaking (its alert is
\* still in the table)
C3_ResetClearsLeak ==
    /\ result.op = "resetSystem"
    /\ result.resetCount > 0
    /\ \E i \in 1..Len(sensors) :
          /\ sensors[i].status = "active"
          /\ CountRows(alerts, AlertsOf(alerts, sensors[i].id, {"leak"})) > 0

\* C4: for an existing sensor with fewer than 3 readings in the window,
\* analyzeFlowOverTime returns status normal, confidence 50 and the factors
\* list ["insufficient_data"].
C4_InsufficientData ==
    (/\ result.op = "analyzeFlowOverTime"
     /\ SensorKnown(result.sensorId)
     /\ Len(WindowReadings(result.sensorId, result.windowMinutes)) < 3)
    => /\ result.value.status = "normal"
       /\ result.value.confidence = 50
       /\ result.value.factors = <<"insufficient_data">>

\* analyzeFlowOverTime has answered for a sensor with two readings in the window
C4_TwoReadingsInWindow ==
    /\ result.op = "analyzeFlowOverTime"
    /\ SensorKnown(result.sensorId)
    /\ Len(WindowReadings(result.sensorId, result.windowMinutes)) = 2
    /\ result.value.factors = <<"insufficient_data">>

\* the window of the last analyzeFlowOverTime holds at least 3 readings of an
\* existing sensor and their mean pressure is below 30.00
LowPressureWindow ==
    /\ result.op = "analyzeFlowOverTime"
    /\ SensorKnown(result.sensorId)
    /\ LET rs == WindowReadings(result.sensorId, result.windowMinutes)
       IN  Len(rs) >= 3 /\ SumSeq(PressuresOf(rs)) < 3000 * Len(rs)

\* C5 (as stated): with at least 3 readings in the window and a mean pressure
\* below 3000, analyzeFlowOverTime returns status leak, severity high,
\* confidence 85 and a factors list that contains "low_pressure".
C5_LowPressureConfidence85 ==
    LowPressureWindow
    => /\ result.value.status = "leak"
       /\ result.value.severity = "high"
       /\ result.value.confidence = 85
       /\ \E i \in DOMAIN result.value.factors : result.value.factors[i] = "low_pressure"

\* C5 (amended): with at least 3 readings in the window and a mean pressure
\* below 3000, analyzeFlowOverTime returns status leak, severity high and a
\* factors list that contains "low_pressure"; the confidence is 85, or 95 when
\* the anomaly check has added "pattern_deviation" to the factors.
C5_LowPressureLeak ==
    LowPressureWindow
    => /\ result.value.status = "leak"
       /\ result.value.severity = "high"
       /\ result.value.confidence =
             IF \E i \in DOMAIN result.value.factors :
                   result.value.factors[i] = "pattern_deviation"
             THEN 95 ELSE 85
       /\ \E i \in DOMAIN result.value.factors : result.value.factors[i] = "low_pressure"

\* the warning rule for high variance matched first and the low-pressure rule
\* then made the result a leak
C5_VarianceThenLowPressure ==
    /\ LowPressureWindow
    /\ Len(result.value.factors) >= 2
    /\ result.value.factors[1] = "high_flow_variance"
    /\ result.value.factors[2] = "low_pressure"
    /\ result.value.status = "leak"

\* C6: checkFlowAnomaly returns isAnomaly = false and expectedRange = null when
\* the pattern bucket of the current hour and weekday is absent (or cannot be
\* read) or has a sampleCount below 10.
C6_NoAnomalyWithoutPattern ==
    (/\ result.op = "checkFlowAnomaly"
     /\ \/ ~dbUp
        \/ \A p \in BucketRows(result.sensorId) : p.sampleCount < 10)
    => /\ result.value.isAnomaly = FALSE
       /\ result.value.expectedRange = <<>>

\* checkFlowAnomaly has answered for a flow rate outside avg +- 2 stdDev of a
\* bucket row that has fewer than 10 samples
C6_SparseBucketSuppressed ==
    /\ result.op = "checkFlowAnomaly"
    /\ dbUp
    /\ BucketRows(result.sensorId) # {}
    /\ \A p \in BucketRows(result.sensorId) :
          /\ p.sampleCount < 10
          /\ \/ result.currentFlowRate < p.avgFlowRate - 2 * p.stdDeviation
             \/ result.currentFlowRate > p.avgFlowRate + 2 * p.stdDeviation
    /\ result.value.isAnomaly = FALSE

\* C7: a result of calculatePipeRiskScore other than null has riskScore,
\* leakProbability and blockageProbability within [0, 100].
C7_ScoresInRange ==
    (result.op = "calculatePipeRiskScore" /\ result.value # <<>>)
    => /\ result.value[1].riskScore \in 0..100
       /\ result.value[1].leakProbability \in 0..100
       /\ result.value[1].blockageProbability \in 0..100

\* calculatePipeRiskScore has returned a result to which all five factors
\* contributed, whose sum is above 100
C7_ScoreCapped ==
    /\ result.op = "calculatePipeRiskScore"
    /\ result.value # <<>>
    /\ Len(result.value[1].factors) = 5
    /\ result.value[1].riskScore = 100
    /\ result.value[1].leakProbability = 100

\* C8 (as stated): every row of pipeRiskScores has riskScore, leakProbability
\* and blockageProbability within [0, 100].
C8_StoredScoresInRange ==
    \A r \in BagToSet(riskScores) :
       /\ r.riskScore \in 0..100
       /\ r.leakProbability \in 0..100
       /\ r.blockageProbability \in 0..100

\* C9 (as stated): flowPatterns holds at most one row for each
\* (sensorId, hourOfDay, dayOfWeek).
C9_OneRowPerBucket ==
    \A p \in BagToSet(patterns) :
       CountRows(patterns, { q \in BagToSet(patterns) :
                                /\ q.sensorId = p.sensorId
                                /\ q.hourOfDay = p.hourOfDay
                                /\ q.dayOfWeek = p.dayOfWeek }) <= 1

\* C10 (as stated): pipeRiskScores holds at most one row for each sensor, and
\* after calculatePipeRiskScore that row carries the score, the factors and
\* the time of the analysis just made.
C10_OneRowPerSensor ==
    /\ \A r \in BagToSet(riskScores) :
          CountRows(riskScores, { q \in BagToSet(riskScores) :
                                     q.sensorId = r.sensorId }) <= 1
    /\ (result.op = "calculatePipeRiskScore" /\ result.value # <<>>)
       => \E r \in BagToSet(riskScores) :
             /\ r.sensorId = result.sensorId
             /\ r.riskScore = result.value[1].riskScore
             /\ r.factors = [json |-> result.value[1].factors]
             /\ r.lastAnalyzedAt = now

\* the rows of `table` for the bucket of the row p
SameBucket(table, p) ==
    { q \in BagToSet(table) : /\ q.sensorId = p.sensorId
                              /\ q.hourOfDay = p.hourOfDay
                              /\ q.dayOfWeek = p.dayOfWeek }

\* C11 (as stated): after learnFlowPatterns over a history that only grows
\* (at most 100 readings, so each of them is among those the call reads),
\* every row of flowPatterns of the sensor has stdDeviation >= 0 and
\* minFlowRate <= flowRate <= maxFlowRate for every reading of its bucket.
C11_MinMaxBoundContributors ==
    (result.op = "learnFlowPatterns" /\ Len(readings[result.sensorId]) <= 100)
    => \A p \in BagToSet(patterns) :
          p.sensorId = result.sensorId
          => /\ p.stdDeviation >= 0
             /\ \A i \in DOMAIN readings[p.sensorId] :
                   PatternKey(readings[p.sensorId][i]) = <<p.dayOfWeek, p.hourOfDay>>
                   => /\ p.minFlowRate <= readings[p.sensorId][i].flowRate
                      /\ readings[p.sensorId][i].flowRate <= p.maxFlowRate

\* C12 (as stated): a step of learnFlowPatterns never lowers the sampleCount
\* that getFlowPattern reads for a bucket, and for a bucket that has a row
\* already it raises it: whichever row was read before the step, a row of the
\* bucket with a greater sampleCount is there to be read after it.
C12_SampleCountGrows ==
    [][ (/\ result'.op = "learnFlowPatterns"
         /\ patterns' # patterns)
        => \A q \in BagToSet(patterns) :
              q.sensorId = result'.sensorId
              => \E r \in SameBucket(patterns', q) : r.sampleCount > q.sampleCount ]_vars

\* the contributions of a factor label to riskScore and to leakProbability
RiskContribution(label) ==
    CASE label = "Active leak detected" -> 50
      [] label = "Warning status active" -> 25
      [] label = "High flow variability" -> 20
      [] label = "Below-normal pressure" -> 15
      [] label = "Significant pattern deviation" -> 15
      [] label = "Main pipe (higher impact)" -> 5
      [] OTHER -> 0

LeakContribution(label) ==
    CASE label = "Active leak detected" -> 80
      [] label = "Warning status active" -> 30
      [] label = "High flow variability" -> 25
      [] label = "Below-normal pressure" -> 20
      [] OTHER -> 0

\* C13: a result of calculatePipeRiskScore has riskScore = min(100, sum of the
\* risk contributions of its factors) and leakProbability = min(100, sum of
\* their leak-probability contributions); a sensor stored as leak that is no
\* main pipe and has no readings and no pattern gets riskScore 50 and
\* leakProbability 80.
C13_AdditiveCapped ==
    (result.op = "calculatePipeRiskScore" /\ result.value # <<>>)
    => LET v == result.value[1]
           risk == SumSeq([i \in DOMAIN v.factors |-> RiskContribution(v.factors[i])])
           leak == SumSeq([i \in DOMAIN v.factors |-> LeakContribution(v.factors[i])])
           sensor == GetSensorById(result.sensorId)[1]
       IN  /\ v.riskScore = Min2(100, risk)
           /\ v.leakProbability = Min2(100, leak)
           /\ (/\ sensor.status = "leak"
               /\ sensor.pipeType # "main"
               /\ readings[result.sensorId] = <<>>
               /\ BucketRows(result.sensorId) = {})
              => v.riskScore = 50 /\ v.leakProbability = 80

\* calculatePipeRiskScore has answered for a leaking branch pipe on the one
\* factor of its status
C13_SingleLeakFactor ==
    /\ result.op = "calculatePipeRiskScore"
    /\ result.value # <<>>
    /\ result.value[1].factors = <<"Active leak detected">>
    /\ result.value[1].riskScore = 50
    /\ result.value[1].leakProbability = 80

\* C14: a step of calculatePipeRiskScore for a sensorId that getSensorById
\* does not find returns null and leaves pipeRiskScores as it was.
C14_UnknownSensorWritesNothing ==
    [][ (/\ result'.op = "calculatePipeRiskScore"
         /\ ~SensorKnown(result'.sensorId))
        => /\ result'.value = <<>>
           /\ riskScores' = riskScores ]_vars

\* calculatePipeRiskScore has returned null for sensor 4, which is not among
\* the three sensors of the table, whose scores are stored
C14_UnknownSensorNull ==
    /\ result.op = "calculatePipeRiskScore"
    /\ result.value = <<>>
    /\ dbUp
    /\ Len(sensors) = 3
    /\ ~SensorKnown(result.sensorId)
    /\ riskScores # EmptyBag
    /\ \A r \in BagToSet(riskScores) : r.sensorId # result.sensorId

\* C19: the predictions of generateSystemHealthReport hold exactly one entry
\* for each sensor of the table, in order of non-increasing riskScore, and
\* when the report is returned every one of them is stored in pipeRiskScores
\* with the time of the report.
C19_RankedPredictions ==
    result.op = "generateSystemHealthReport"
    => LET predictions == result.value.predictions
           allSensors == GetAllSensors
       IN  /\ Len(predictions) = Len(allSensors)
           /\ \A i \in 1..Len(allSensors) :
                 Cardinality({ j \in 1..Len(predictions) :
                                 predictions[j].sensorId = allSensors[i].id }) = 1
           /\ \A j \in 1..(Len(predictions) - 1) :
                 predictions[j].riskScore >= predictions[j + 1].riskScore
           /\ \A j \in 1..Len(predictions) :
                 \E r \in BagToSet(riskScores) :
                    /\ r.sensorId = predictions[j].sensorId
                    /\ r.riskScore = predictions[j].riskScore
                    /\ r.factors = [json |-> predictions[j].factors]
                    /\ r.lastAnalyzedAt = now

\* the report ranks the leaking sensor 3 before sensor 1, the first of the table
C19_LeakRankedFirst ==
    /\ result.op = "generateSystemHealthReport"
    /\ Len(result.value.predictions) = 3
    /\ result.value.predictions[1].sensorId = 3
    /\ result.value.predictions[1].riskScore > result.value.predictions[2].riskScore

\* C18 (as stated): without a connection to the datastore, the outcome of
\* analyzeFlowOverTime, calculatePipeRiskScore and classifyLeak is none of the
\* outcomes these give for a sensor that is not found or has too few readings.
C18_StoreUnavailableDistinguishable ==
    ~dbUp
    => /\ result.op = "analyzeFlowOverTime"
          => /\ result.value.factors # <<"sensor_not_found">>
             /\ result.value.factors # <<"insufficient_data">>
             /\ result.value.status # "normal"
       /\ result.op = "calculatePipeRiskScore" => result.value # <<>>
       /\ result.op = "classifyLeak"
          => /\ result.value.type # "unknown"
             /\ result.value.urgency # "Unable to classify - insufficient data"

\* the severity of spec 4.6 for a leak type
SeverityOfType(type) ==
    CASE type = "burst" -> "critical"
      [] type = "joint" -> "high"
      [] type = "pinhole" -> "medium"
      [] type = "seepage" -> "low"
      [] OTHER -> "medium"

\* C20: for a sensor with at least 5 recent readings classifyLeak returns the
\* first band that matches in the order burst, joint, pinhole, seepage, else
\* unknown; mean flow > 5000 with mean pressure < 2000 is burst whatever the
\* variance; the severity is that of the type and the urgency that of the
\* severity.
C20_FirstMatchingBand ==
    LET rs == Take(Reverse(readings[1]), 20)
        n == Len(rs)
        S == FlowS(FlowRatesOf(rs))
        D == FlowD(FlowRatesOf(rs))
        P == SumSeq(PressuresOf(rs))
        burst == S > 50 * n /\ P < 2000 * n
        joint == S > 30 * n /\ P < 4000 * n /\ D < 100 * n * n
        pinhole == S > 20 * n /\ S < 40 * n /\ D < 50 * n * n
        seepage == S > 15 * n /\ S < 25 * n
    IN  (/\ result.op = "classifyLeak"
         /\ result.sensorId = 1
         /\ SensorKnown(1)
         /\ n >= 5)
        => /\ burst => result.value.type = "burst"
           /\ (~burst /\ joint) => result.value.type = "joint"
           /\ (~burst /\ ~joint /\ pinhole) => result.value.type = "pinhole"
           /\ (~burst /\ ~joint /\ ~pinhole /\ seepage) => result.value.type = "seepage"
           /\ (~burst /\ ~joint /\ ~pinhole /\ ~seepage) => result.value.type = "unknown"
           /\ result.value.severity = SeverityOfType(result.value.type)
           /\ result.value.urgency = UrgencyMap(result.value.severity)

\* classifyLeak has answered burst for readings of mean flow above 5000 and
\* mean pressure below 2000 whose variance is far above that of the joint band
C20_BurstWithHighVariance ==
    LET rs == Take(Reverse(readings[1]), 20)
    IN  /\ result.op = "classifyLeak"
        /\ result.sensorId = 1
        /\ SensorKnown(1)
        /\ Len(rs) >= 5
        /\ FlowD(FlowRatesOf(rs)) >= 100 * Len(rs) * Len(rs)
        /\ result.value.type = "burst"
        /\ result.value.severity = "critical"

\* the readings of a sensor that are at most 5 minutes old
RecentReadings(sid) ==
    SelectSeq(readings[sid], LAMBDA r : 30 * r.timestamp >= 30 * now - 5)

\* the sensors with data: those with a reading of the last 5 minutes
SensorsWithData == { sid \in AllSensorIds : RecentReadings(sid) # <<>> }

\* the mean flow of a sensor with data times the product of the reading
\* counts of all sensors with data (a common denominator)
ScaledMean(sid) ==
    LET count(j) == IF j \in SensorsWithData THEN Len(RecentReadings(j)) ELSE 1
        L == ProductSeq([j \in AllSensorIds |-> count(j)])
    IN  SumSeq(FlowRatesOf(RecentReadings(sid))) * (L \div count(sid))

\* the sum of the scaled means of the sensors with data
ScaledMeanSum ==
    SumSeq([j \in AllSensorIds |-> IF j \in SensorsWithData THEN ScaledMean(j) ELSE 0])

\* the sensors with data whose mean is below half of the mean of the means
LowFlowSensors ==
    { sid \in SensorsWithData :
        2 * Cardinality(SensorsWithData) * ScaledMean(sid) < ScaledMeanSum }

\* C15: when three sensors have data and their mean flows are within 10% of
\* each other, compareFlowAcrossPipes answers isSystemWideIssue = true and
\* lists the three sensors.
C15_SimilarFlowsSystemWide ==
    (/\ result.op = "compareFlowAcrossPipes"
     /\ dbUp
     /\ Cardinality(SensorsWithData) = 3
     /\ \A i, j \in SensorsWithData :
           10 * (ScaledMean(i) - ScaledMean(j)) <= ScaledMean(i))
    => /\ result.value.isSystemWideIssue = TRUE
       /\ Len(result.value.affectedSensors) = 3
       /\ \A sid \in SensorsWithData :
             \E i \in 1..3 : result.value.affectedSensors[i] = sid

\* C16: with at least two sensors with data, isSystemWideIssue is true exactly
\* when the number of sensors whose mean is below half of the overall mean
\* (the mean of the sensors' means) exceeds 0.7 times the number of sensors
\* with data, and then affectedSensors lists every sensor with data.
C16_SystemWideIffMostLow ==
    LET k == Cardinality(SensorsWithData)
        v == result.value
    IN  (/\ result.op = "compareFlowAcrossPipes"
         /\ dbUp
         /\ k >= 2)
        => /\ v.isSystemWideIssue = TRUE <=> 10 * Cardinality(LowFlowSensors) > 7 * k
           /\ v.isSystemWideIssue = TRUE
                 => /\ Len(v.affectedSensors) = k
                    /\ { v.affectedSensors[i] : i \in 1..Len(v.affectedSensors) }
                          = SensorsWithData

\* a comparison has answered system-wide although one sensor with data is not
\* a low-flow sensor
C16_SystemWideWithNormalSensor ==
    /\ result.op = "compareFlowAcrossPipes"
    /\ dbUp
    /\ Cardinality(SensorsWithData) >= 2
    /\ LowFlowSensors # SensorsWithData
    /\ result.value.isSystemWideIssue = TRUE

\* C17: when fewer than two sensors have a reading of the last 5 minutes,
\* compareFlowAcrossPipes answers isSystemWideIssue = false, no affected
\* sensor and the insufficient-data diagnosis.
C17_FewerThanTwoSensors ==
    (/\ result.op = "compareFlowAcrossPipes"
     /\ Cardinality(SensorsWithData) < 2)
    => /\ result.value.isSystemWideIssue = FALSE
       /\ result.value.affectedSensors = <<>>
       /\ result.value.diagnosis = "Insufficient data for comparison"

\* a comparison has been made while every sensor has readings and all of
\* them are older than 5 minutes
C17_OnlyOldReadings ==
    /\ result.op = "compareFlowAcrossPipes"
    /\ dbUp
    /\ SensorsWithData = {}
    /\ \A sid \in AllSensorIds : readings[sid] # <<>>
    /\ result.value.diagnosis = "Insufficient data for comparison"

\* C21: for an unknown sensor or a sensor with fewer than 5 readings
\* classifyLeak returns type unknown, severity medium and estimatedFlowLoss 0,
\* and no table changes.
C21_InsufficientDataUnknown ==
    [][ (/\ result'.op = "classifyLeak"
         /\ \/ ~SensorKnown(result'.sensorId)
            \/ Len(readings[result'.sensorId]) < 5)
        => /\ result'.value.type = "unknown"
           /\ result'.value.severity = "medium"
           /\ result'.value.estimatedFlowLoss = 0
           /\ UNCHANGED <<sensors, readings, patterns, riskScores, alerts>> ]_vars

\* classifyLeak has answered unknown for a known sensor whose 4 readings have
\* the mean flow and pressure of the burst band
C21_FourBurstReadings ==
    /\ result.op = "classifyLeak"
    /\ result.sensorId = 1
    /\ SensorKnown(1)
    /\ Len(readings[1]) = 4
    /\ FlowS(FlowRatesOf(readings[1])) > 50 * 4
    /\ SumSeq(PressuresOf(readings[1])) < 2000 * 4
    /\ result.value.type = "unknown"
    /\ result.value.estimatedFlowLoss = 0

\* C30: classifyLeak returns estimatedFlowLoss >= 0, and estimatedFlowLoss > 0
\* exactly when the returned type is not unknown.
C30_FlowLossPositiveIffClassified ==
    result.op = "classifyLeak"
    => /\ result.value.estimatedFlowLoss >= 0
       /\ result.value.estimatedFlowLoss > 0 <=> result.value.type # "unknown"

\* classifyLeak has answered seepage, the band with the smallest margin
\* between its lower flow bound and its baseline, with a positive loss
C30_SeepageLossPositive ==
    /\ result.op = "classifyLeak"
    /\ result.value.type = "seepage"
    /\ result.value.estimatedFlowLoss > 0

\* C22: when the sensor has fewer than 10 stored readings, learnFlowPatterns
\* leaves flowPatterns as it is.
C22_LearnNoOpBelowTen ==
    [][ (/\ result'.op = "learnFlowPatterns"
         /\ Len(readings[result'.sensorId]) < 10)
        => patterns' = patterns ]_vars

\* learnFlowPatterns has run for a sensor with 9 stored readings and the
\* table is empty
C22_NineReadingsNoBucket ==
    /\ result.op = "learnFlowPatterns"
    /\ dbUp
    /\ Len(readings[result.sensorId]) = 9
    /\ patterns = EmptyBag

\* the readings of the sensor that fall into the bucket of row p
ReadingsOfBucket(p) ==
    SelectSeq(readings[p.sensorId],
              LAMBDA r : PatternKey(r) = <<p.dayOfWeek, p.hourOfDay>>)

\* C26: the sampleCount of a row of flowPatterns never exceeds the number of
\* readings of its sensor, hour and weekday, so repeated learning over the
\* same history does not raise a bucket of fewer than 10 readings to
\* sampleCount >= 10.
C26_SampleCountAtMostReadings ==
    \A p \in BagToSet(patterns) : p.sampleCount <= Len(ReadingsOfBucket(p))

\* learnFlowPatterns has run twice over the same history: a bucket of fewer
\* than 10 readings has two rows, each with that number as sampleCount
C26_RelearnedSmallBucket ==
    \E p \in BagToSet(patterns) :
        /\ patterns[p] >= 2
        /\ p.sampleCount < 10
        /\ p.sampleCount = Len(ReadingsOfBucket(p))

\* the factors of the prediction calculatePipeRiskScore has returned
ReturnedFactors ==
    IF result.op = "calculatePipeRiskScore" /\ result.value # <<>>
    THEN { result.value[1].factors[i] : i \in DOMAIN result.value[1].factors }
    ELSE {}

\* C23: calculatePipeRiskScore adds "Significant pattern deviation" only when
\* flowPatterns has a row of the current hour and weekday with
\* sampleCount >= 10, the baseline checkFlowAnomaly asks for.
C23_DeviationNeedsBaseline ==
    "Significant pattern deviation" \in ReturnedFactors
    => \E p \in BucketRows(result.sensorId) : p.sampleCount >= 10

\* C25: when the mean flow of the 10 or more recent readings is 0,
\* calculatePipeRiskScore does not add "High flow variability".
C25_ZeroMeanNotEvaluated ==
    LET rs == Take(Reverse(readings[result.sensorId]), 50)
    IN  (/\ result.op = "calculatePipeRiskScore"
         /\ result.value # <<>>
         /\ Len(rs) >= 10
         /\ FlowS(FlowRatesOf(rs)) = 0)
        => "High flow variability" \notin ReturnedFactors

\* the order low < medium < high < critical of the severities
SeverityRank(severity) ==
    CASE severity = "low" -> 0
      [] severity = "medium" -> 1
      [] severity = "high" -> 2
      [] OTHER -> 3

\* the factors of the result analyzeFlowOverTime has returned
AnalysisFactors ==
    IF result.op = "analyzeFlowOverTime"
    THEN { result.value.factors[i] : i \in DOMAIN result.value.factors }
    ELSE {}

\* C24: on a window of at least 3 readings the rules of analyzeFlowOverTime
\* only escalate: the returned severity is at least the one of every rule that
\* matched (variance: medium, low pressure: high, blockage: medium, pattern
\* deviation: medium), "low_pressure" comes with status leak and severity
\* high, "possible_blockage" with status blockage, and a pattern deviation
\* makes a warning only of a status that was normal.
C24_RulesOnlyEscalate ==
    LET v == result.value
        F == AnalysisFactors
        rs == WindowReadings(result.sensorId, result.windowMinutes)
        n == Len(rs)
        S == FlowS(FlowRatesOf(rs))
        P == SumSeq(PressuresOf(rs))
        varianceRule == S < 0 \/ 100 * FlowD(FlowRatesOf(rs)) > 9 * S * S
        pressureRule == P < 3000 * n
        blockageRule == S < n /\ P > 5000 * n
    IN  (/\ result.op = "analyzeFlowOverTime"
         /\ SensorKnown(result.sensorId)
         /\ n >= 3)
        => /\ varianceRule <=> "high_flow_variance" \in F
           /\ pressureRule <=> "low_pressure" \in F
           /\ blockageRule <=> "possible_blockage" \in F
           /\ "high_flow_variance" \in F => SeverityRank(v.severity) >= 1
           /\ "low_pressure" \in F => v.status = "leak" /\ v.severity = "high"
           /\ "possible_blockage" \in F
                 => v.status = "blockage" /\ SeverityRank(v.severity) >= 1
           /\ "pattern_deviation" \in F
                 => /\ SeverityRank(v.severity) >= 1
                    /\ v.status = "leak" <=> "low_pressure" \in F
                    /\ v.status = "blockage" <=> "possible_blockage" \in F
                    /\ v.status \in {"warning", "leak", "blockage"}
                    /\ (F = {"pattern_deviation"})
                          => v.status = "warning" /\ v.severity = "medium"

\* the variance rule, the blockage rule and the pattern deviation matched on
\* one window and the result is a blockage
C24_BlockageKeptUnderDeviation ==
    /\ result.op = "analyzeFlowOverTime"
    /\ SensorKnown(result.sensorId)
    /\ AnalysisFactors = {"high_flow_variance", "possible_blockage", "pattern_deviation"}
    /\ result.value.status = "blockage"

\* C27: whenever no seedSensors request is in flight and one has answered,
\* the table sensors holds exactly the 3 default sensors.
C27_SeedingNeverDuplicates ==
    (/\ dbUp
     /\ result.op = "seedSensors"
     /\ \A c \in SeedCallers : seeders[c].pc = "idle")
    => /\ Len(sensors) = 3
       /\ [i \in 1..3 |-> sensors[i].pipeType] = <<"main", "secondary", "branch">>

\* C28: when between 2 and 5 sensors have data, a compareFlowAcrossPipes
\* result with isSystemWideIssue = false has an empty affectedSensors list.
C28_NoOutlierUpToFive ==
    (/\ result.op = "compareFlowAcrossPipes"
     /\ dbUp
     /\ Cardinality(SensorsWithData) >= 2
     /\ Cardinality(SensorsWithData) <= 5
     /\ result.value.isSystemWideIssue = FALSE)
    => result.value.affectedSensors = <<>>

\* C29: when the mean flow of every sensor with data is non-negative and
\* fewer than 4 sensors have data, compareFlowAcrossPipes does not answer
\* isSystemWideIssue = true.
C29_NoSystemWideBelowFour ==
    (/\ result.op = "compareFlowAcrossPipes"
     /\ Cardinality(SensorsWithData) < 4
     /\ \A sid \in SensorsWithData : ScaledMean(sid) >= 0)
    => result.value.isSystemWideIssue = FALSE

\* a comparison of three sensors, two of them below half of the mean of the
\* means, has not answered system-wide
C29_TwoOfThreeLow ==
    /\ result.op = "compareFlowAcrossPipes"
    /\ dbUp
    /\ Cardinality(SensorsWithData) = 3
    /\ Cardinality(LowFlowSensors) = 2
    /\ \A sid \in SensorsWithData : ScaledMean(sid) >= 0
    /\ result.value.isSystemWideIssue = FALSE

====
